---- MODULE Spec2Model ----
(***************************************************************************)
(* Model of src/src/lib.rs: Signal<T>, a value with change handlers.       *)
(*                                                                         *)
(* A value of the generic type T is a record [ty, n, s]: ty names the Rust *)
(* type the tests instantiate T with ("i32", "str" for &'static str,       *)
(* "String", "usize"), n is the number of a numeric value and s the text   *)
(* of a textual one, as a sequence of one-character strings.               *)
(***************************************************************************)
EXTENDS Integers, Sequences, FiniteSets, TLC

VARIABLES
    sigs,      \* the live Signal objects: sigs[k] = [value, handlers]
    cur,       \* the set call in progress (its frame), or the idle frame
    ret,       \* what the last call returned to its caller
    copy,      \* the caller's variable holding the last value_copy result
    shared,    \* the caller's Rc<RefCell<i32>> counter, a clone of it in each handler
    outer,     \* the caller's plain counter, copied into each handler by move
    ctor,      \* history: how each signal was constructed
    calls,     \* history: the set calls issued, in order
    log,       \* history: the handler invocations, in order
    mapcalls,  \* history: the map calls issued, in order
    fcalls,    \* history: how many times a map transform was applied
    ops        \* history: how many on_change, set and map calls were made

vars == <<sigs, cur, ret, copy, shared, outer, ctor, calls, log, mapcalls, fcalls, ops>>

----------------------------------------------------------------------------
(* Bounds of the exploration *)

\* How many on_change, set and map calls the caller makes in all.
MaxOps == 3

\* How many of them are map calls.
MaxMaps == 1

----------------------------------------------------------------------------
(* Values of T *)

IntV(n) == [ty |-> "i32", n |-> n, s |-> <<>>]
UsizeV(n) == [ty |-> "usize", n |-> n, s |-> <<>>]
StrV(s) == [ty |-> "str", n |-> 0, s |-> s]
StringV(s) == [ty |-> "String", n |-> 0, s |-> s]

Hello == <<"H", "e", "l", "l", "o">>
Quoted == <<"a", "\"", "\\">>

\* The values the caller passes to new and set, per type.
ValuesOf(ty) ==
    CASE ty = "i32" -> {IntV(42), IntV(43)}
      [] ty = "usize" -> {UsizeV(0), UsizeV(5)}
      [] ty = "str" -> {StrV(Hello), StrV(Quoted)}
      [] ty = "String" -> {StringV(Hello), StringV(<<"4", "2">>)}

\* Types the caller constructs a signal over (String and usize arise from map).
CallerTypes == {"i32", "str"}

IsNumeric(ty) == ty \in {"i32", "usize"}

\* T: Copy holds for the integer types and for &'static str, not for String.
IsCopy(ty) == ty \in {"i32", "usize", "str"}

\* T::default()
TDefault(ty) ==
    CASE ty = "i32" -> IntV(0)
      [] ty = "usize" -> UsizeV(0)
      [] ty = "str" -> StrV(<<>>)
      [] ty = "String" -> StringV(<<>>)

----------------------------------------------------------------------------
(* Formatting: what {} and {:?} write for a value of T *)

DigitChar(d) ==
    CASE d = 0 -> "0" [] d = 1 -> "1" [] d = 2 -> "2" [] d = 3 -> "3"
      [] d = 4 -> "4" [] d = 5 -> "5" [] d = 6 -> "6" [] d = 7 -> "7"
      [] d = 8 -> "8" [] d = 9 -> "9"

RECURSIVE Digits(_)
Digits(n) == IF n < 10 THEN <<DigitChar(n)>>
             ELSE Digits(n \div 10) \o <<DigitChar(n % 10)>>

Decimal(n) == IF n < 0 THEN <<"-">> \o Digits(-n) ELSE Digits(n)

EscapeChar(c) ==
    CASE c = "\"" -> <<"\\", "\"">>
      [] c = "\\" -> <<"\\", "\\">>
      [] OTHER -> <<c>>

RECURSIVE EscapeDebug(_)
EscapeDebug(s) == IF s = <<>> THEN <<>>
                  ELSE EscapeChar(Head(s)) \o EscapeDebug(Tail(s))

\* {} of the payload
FmtDisplay(v) == IF IsNumeric(v.ty) THEN Decimal(v.n) ELSE v.s

\* {:?} of the payload
FmtDebug(v) == IF IsNumeric(v.ty) THEN Decimal(v.n)
               ELSE <<"\"">> \o EscapeDebug(v.s) \o <<"\"">>

SignalOpen == <<"S", "i", "g", "n", "a", "l", "(">>
SignalClose == <<")">>

\* impl Display: write!(f, "Signal({})", self.value)
Display(sig) == SignalOpen \o FmtDisplay(sig.value) \o SignalClose

\* Faulty variant: the payload is written with {} instead of {:?}.
DebugAsDisplay(sig) == SignalOpen \o FmtDisplay(sig.value) \o SignalClose

\* impl Debug: write!(f, "Signal({:?})", self.value)
Debug(sig) == SignalOpen \o FmtDebug(sig.value) \o SignalClose

----------------------------------------------------------------------------
(* Handlers: Box<dyn FnMut(&T, &T)>.  A handler is the closure's captured  *)
(* state: kind names the closure body, count its privately owned counter.  *)
(*   "count" : move |new, old| { counter += 1; *rc.borrow_mut() += 1; }    *)
(*             (counter is copied into the closure, rc is a clone of the   *)
(*             caller's Rc<RefCell<i32>>)                                  *)
(*   "panic" : a closure whose assertion fails                             *)

HandlerKinds == {"count", "panic"}

\* The closure the caller builds: a move closure copies the caller's counter.
\* id tells the closures apart: it is the number of the call that registered it.
Closure(kind, counter, id) == [kind |-> kind, count |-> counter, id |-> id]

\* Faulty variant: the closure borrows the caller's counter instead of owning a copy.
HandlerBodyByRef(h) ==
    [h |-> h,
     shared |-> IF h.kind = "count" THEN 1 ELSE 0,
     outer |-> IF h.kind = "count" THEN 1 ELSE 0,
     panics |-> h.kind = "panic"]

\* One run of the closure body: its state afterwards, what it adds to the
\* shared counter and to the caller's plain counter (nothing: the closure
\* counts on its own copy), and whether it unwinds.
HandlerBody(h) ==
    [h |-> IF h.kind = "count" THEN [h EXCEPT !.count = @ + 1] ELSE h,
     shared |-> IF h.kind = "count" THEN 1 ELSE 0,
     outer |-> 0,
     panics |-> h.kind = "panic"]

----------------------------------------------------------------------------
(* Signal<T>: the struct and its methods as functions of the struct *)

\* Signal::new
New(default) == [value |-> default, handlers |-> <<>>]

\* Faulty variant: the signal is built from a sample value instead of T::default().
DefaultSignalFromSample(ty) == New(CHOOSE v \in ValuesOf(ty) : TRUE)

\* Default::default
DefaultSignal(ty) == New(TDefault(ty))

\* Signal::value
ValueRef(sig) == sig.value

\* Faulty variant: a fresh T is returned instead of the stored one.
ValueCopyFresh(sig) == TDefault(sig.value.ty)

\* Signal::value_copy
ValueCopy(sig) == sig.value

\* Faulty variant: the new value is dropped instead of stored.
MemReplaceKeep(sig, new) == sig

\* std::mem::replace(&mut self.value, new): the struct afterwards ...
MemReplace(sig, new) == [sig EXCEPT !.value = new]

\* Faulty variant: the local is read after the store and holds the new value.
MemReplacedAfterStore(sig, new) == new

\* ... and what it returns
MemReplaced(sig, new) == sig.value

\* Faulty variant: a handler panicked and the replaced value is put back.
UnwoundRestoring(sig, frame) == [sig EXCEPT !.value = frame.old_value]

\* The struct once a handler has unwound out of set: old_value is dropped,
\* nothing is restored.
Unwound(sig, frame) == sig

\* Faulty variant: the loop is left after the first handler.
LoopDoneAfterFirst(sig, frame) == frame.i > 1 \/ frame.i > Len(sig.handlers)

\* Faulty variant: nobody is notified when the value did not change.
LoopDoneIfSame(sig, frame) == frame.i > Len(sig.handlers) \/ sig.value = frame.old_value

\* for handler in self.handlers.iter_mut(): the iterator is exhausted
LoopDone(sig, frame) == frame.i > Len(sig.handlers)

\* Faulty variant: a handler with the same body as a registered one is not added.
PushHandlerDedup(sig, h) ==
    IF \E k \in 1..Len(sig.handlers) : sig.handlers[k].kind = h.kind
    THEN sig ELSE [sig EXCEPT !.handlers = Append(@, h)]

\* Faulty variant: the signal keeps a single handler, the last one registered.
PushHandlerSingle(sig, h) == [sig EXCEPT !.handlers = <<h>>]

\* Faulty variant: the handler is inserted at the front.
PushHandlerFront(sig, h) == [sig EXCEPT !.handlers = <<h>> \o @]

\* self.handlers.push(Box::new(handler))
PushHandler(sig, h) == [sig EXCEPT !.handlers = Append(@, h)]

\* The transforms the caller passes to map.
Transforms == {"to_string", "len", "panic"}

\* Whether the closure type-checks against T.
Applicable(f, ty) ==
    CASE f = "to_string" -> TRUE
      [] f = "len" -> ty \in {"str", "String"}
      [] f = "panic" -> TRUE

\* Whether the closure unwinds instead of returning.
Unwinds(f) == f = "panic"

\* f(&self.value) for a closure that returns
Apply(f, v) ==
    CASE f = "to_string" -> StringV(FmtDisplay(v))
      [] f = "len" -> UsizeV(Len(v.s))

\* Faulty variant: the value is wrapped without applying f.
MapSignalNoApply(sig, f) == New(sig.value)

\* Faulty variant: the derived signal is built from the source struct, handlers included.
MapSignalKeepHandlers(sig, f) == [sig EXCEPT !.value = Apply(f, sig.value)]

\* Signal::map, when f returns: the signal it returns ...
MapSignal(sig, f) == New(Apply(f, sig.value))

\* Faulty variant: the handlers are moved out of the source.
MapSelfDrained(sig, f) == [sig EXCEPT !.handlers = <<>>]

\* ... and the source, which map only borrows (&self)
MapSelf(sig, f) == sig

----------------------------------------------------------------------------
(* State *)

NoValue == IntV(0)

\* No set call is on the stack.
Idle == [active |-> FALSE, sig |-> 0, call |-> 0, i |-> 0, old_value |-> NoValue]

Ret(op, s, status, val, out) ==
    [op |-> op, sig |-> s, status |-> status, val |-> val, out |-> out]

NoCopy == [sig |-> 0, at |-> 0, val |-> NoValue]

Sigs == 1..Len(sigs)

InitWith(how, sig) ==
    /\ sigs = <<sig>>
    /\ cur = Idle
    /\ ret = Ret(how, 1, "ok", NoValue, <<>>)
    /\ copy = NoCopy
    /\ shared = 0
    /\ outer = 0
    /\ ctor = <<[how |-> how, value |-> sig.value, at |-> 0]>>
    /\ calls = <<>>
    /\ log = <<>>
    /\ mapcalls = <<>>
    /\ fcalls = 0
    /\ ops = 0

Init ==
    \/ \E ty \in CallerTypes : \E v \in ValuesOf(ty) : InitWith("new", New(v))
    \/ \E ty \in CallerTypes : InitWith("default", DefaultSignal(ty))

----------------------------------------------------------------------------
(* Operations.  Every method takes &self or &mut self, so none can start   *)
(* while a set call is on the stack.                                       *)

\* Faulty variant: the new handler is also run for the latest set call already made.
OnChangeReplay(s, kind) ==
    /\ ~cur.active
    /\ ops < MaxOps
    /\ ops' = ops + 1
    /\ sigs' = [sigs EXCEPT ![s] = PushHandler(@, Closure(kind, outer, ops + 1))]
    /\ ret' = Ret("on_change", s, "ok", NoValue, <<>>)
    /\ log' = IF calls = <<>> THEN log
              ELSE Append(log, [call |-> Len(calls), id |-> ops + 1,
                                new |-> calls[Len(calls)].new, old |-> calls[Len(calls)].old,
                                panicked |-> FALSE])
    /\ UNCHANGED <<cur, copy, shared, outer, ctor, calls, mapcalls, fcalls>>

\* signal.on_change(handler)
OnChange(s, kind) ==
    /\ ~cur.active
    /\ ops < MaxOps
    /\ ops' = ops + 1
    /\ sigs' = [sigs EXCEPT ![s] = PushHandler(@, Closure(kind, outer, ops + 1))]
    /\ ret' = Ret("on_change", s, "ok", NoValue, <<>>)
    /\ UNCHANGED <<cur, copy, shared, outer, ctor, calls, log, mapcalls, fcalls>>

\* signal.set(new), line 64: the value is swapped, the old one kept in a local
SetBegin(s, new) ==
    /\ ~cur.active
    /\ ops < MaxOps
    /\ ops' = ops + 1
    /\ new.ty = sigs[s].value.ty
    /\ sigs' = [sigs EXCEPT ![s] = MemReplace(@, new)]
    /\ cur' = [active |-> TRUE, sig |-> s, call |-> Len(calls) + 1, i |-> 1,
               old_value |-> MemReplaced(sigs[s], new)]
    /\ calls' = Append(calls, [sig |-> s, new |-> new, old |-> sigs[s].value,
                               registered |-> [k \in 1..Len(sigs[s].handlers) |->
                                                  sigs[s].handlers[k].id],
                               at |-> ops + 1, status |-> "running"])
    /\ ret' = Ret("set", s, "running", NoValue, <<>>)
    /\ UNCHANGED <<copy, shared, outer, ctor, log, mapcalls, fcalls>>

\* Faulty variant: the two arguments are passed in the other order.
HandlerArgsSwapped(sig, frame) == [new |-> frame.old_value, old |-> sig.value]

\* The arguments of the call on line 66.
HandlerArgs(sig, frame) == [new |-> sig.value, old |-> frame.old_value]

\* signal.set, lines 65-67: one iteration of the loop over the handlers
SetInvoke ==
    /\ cur.active
    /\ cur.i <= Len(sigs[cur.sig].handlers)
    /\ LET s == cur.sig
           h == sigs[s].handlers[cur.i]
           args == HandlerArgs(sigs[s], cur)
           run == HandlerBody(h)
           ran == [sigs[s] EXCEPT !.handlers[cur.i] = run.h]
       IN /\ sigs' = [sigs EXCEPT ![s] = IF run.panics THEN Unwound(ran, cur) ELSE ran]
          /\ shared' = shared + run.shared
          /\ outer' = outer + run.outer
          /\ log' = Append(log, [call |-> cur.call, id |-> h.id,
                                 new |-> args.new, old |-> args.old,
                                 panicked |-> run.panics])
          /\ IF run.panics
             THEN /\ cur' = Idle
                  /\ calls' = [calls EXCEPT ![cur.call].status = "panic"]
                  /\ ret' = Ret("set", s, "panic", NoValue, <<>>)
             ELSE /\ cur' = [cur EXCEPT !.i = @ + 1]
                  /\ UNCHANGED <<calls, ret>>
    /\ UNCHANGED <<copy, ctor, mapcalls, fcalls, ops>>

\* signal.set, line 68: the loop is over and the call returns
SetReturn ==
    /\ cur.active
    /\ LoopDone(sigs[cur.sig], cur)
    /\ cur' = Idle
    /\ calls' = [calls EXCEPT ![cur.call].status = "ok"]
    /\ ret' = Ret("set", cur.sig, "ok", NoValue, <<>>)
    /\ UNCHANGED <<sigs, copy, shared, outer, ctor, log, mapcalls, fcalls, ops>>

\* signal.value()
Value(s) ==
    /\ ~cur.active
    /\ ret' = Ret("value", s, "ok", ValueRef(sigs[s]), <<>>)
    /\ UNCHANGED <<sigs, cur, copy, shared, outer, ctor, calls, log, mapcalls, fcalls, ops>>

\* let copy = signal.value_copy()
ValueCopyCall(s) ==
    /\ ~cur.active
    /\ IsCopy(sigs[s].value.ty)
    /\ copy' = [sig |-> s, at |-> ops, val |-> ValueCopy(sigs[s])]
    /\ ret' = Ret("value_copy", s, "ok", ValueCopy(sigs[s]), <<>>)
    /\ UNCHANGED <<sigs, cur, shared, outer, ctor, calls, log, mapcalls, fcalls, ops>>

\* format!("{}", signal)
DisplayCall(s) ==
    /\ ~cur.active
    /\ ret' = Ret("display", s, "ok", NoValue, Display(sigs[s]))
    /\ UNCHANGED <<sigs, cur, copy, shared, outer, ctor, calls, log, mapcalls, fcalls, ops>>

\* format!("{:?}", signal)
DebugCall(s) ==
    /\ ~cur.active
    /\ ret' = Ret("debug", s, "ok", NoValue, Debug(sigs[s]))
    /\ UNCHANGED <<sigs, cur, copy, shared, outer, ctor, calls, log, mapcalls, fcalls, ops>>

\* signal.map(f): f runs first; when it unwinds, Signal::new is never reached
Map(s, f) ==
    /\ ~cur.active
    /\ ops < MaxOps
    /\ Len(mapcalls) < MaxMaps
    /\ Applicable(f, sigs[s].value.ty)
    /\ ops' = ops + 1
    /\ fcalls' = fcalls + 1
    /\ IF Unwinds(f)
       THEN /\ mapcalls' = Append(mapcalls, [src |-> s, f |-> f, arg |-> sigs[s].value,
                                             at |-> ops + 1, status |-> "panic", sig |-> 0])
            /\ ret' = Ret("map", 0, "panic", NoValue, <<>>)
            /\ UNCHANGED <<sigs, ctor>>
       ELSE /\ sigs' = Append([sigs EXCEPT ![s] = MapSelf(@, f)], MapSignal(sigs[s], f))
            /\ ctor' = Append(ctor, [how |-> "map", value |-> MapSignal(sigs[s], f).value,
                                     at |-> ops + 1])
            /\ mapcalls' = Append(mapcalls, [src |-> s, f |-> f, arg |-> sigs[s].value,
                                             at |-> ops + 1, status |-> "ok",
                                             sig |-> Len(sigs) + 1])
            /\ ret' = Ret("map", Len(sigs) + 1, "ok", NoValue, <<>>)
    /\ UNCHANGED <<cur, copy, shared, outer, calls, log>>

Register == \E s \in Sigs : \E kind \in HandlerKinds : OnChange(s, kind)
Set == \E s \in Sigs : \E new \in ValuesOf(sigs[s].value.ty) : SetBegin(s, new)
Read == \E s \in Sigs : Value(s)
ReadCopy == \E s \in Sigs : ValueCopyCall(s)
RenderDisplay == \E s \in Sigs : DisplayCall(s)
RenderDebug == \E s \in Sigs : DebugCall(s)
Derive == \E s \in Sigs : \E f \in Transforms : Map(s, f)

Next ==
    \/ Register
    \/ Set
    \/ SetInvoke
    \/ SetReturn
    \/ Read
    \/ ReadCopy
    \/ RenderDisplay
    \/ RenderDebug
    \/ Derive

Spec == Init /\ [][Next]_vars

\* The caller registers handlers, sets and reads.
NextNotify == Register \/ Set \/ SetInvoke \/ SetReturn \/ Read

SpecNotify == Init /\ [][NextNotify]_vars

\* ... and derives signals with map.
NextMap == Register \/ Set \/ SetInvoke \/ SetReturn \/ Read \/ Derive

SpecMap == Init /\ [][NextMap]_vars

\* ... and takes copies of the value.
NextCalls == Register \/ Set \/ SetInvoke \/ SetReturn \/ Read \/ ReadCopy \/ Derive

SpecCalls == Init /\ [][NextCalls]_vars

\* The caller registers handlers, sets, takes copies and renders.
NextRead ==
    Register \/ Set \/ SetInvoke \/ SetReturn \/ ReadCopy \/ RenderDisplay \/ RenderDebug

SpecRead == Init /\ [][NextRead]_vars

\* Every operation, on the two signals the crate's tests construct.
InitTests == \E v \in {IntV(42), StrV(Hello)} : InitWith("new", New(v))

SpecTests == InitTests /\ [][Next]_vars

----------------------------------------------------------------------------
(* Reading the histories *)

\* The set calls on signal s issued up to the caller's t-th call, oldest first.
SetsOn(s, t) == SelectSeq(calls, LAMBDA c : c.sig = s /\ c.at <= t)

\* What signal s must hold after the caller's t-th call: the argument of the
\* last set on it, or what it was constructed with.
ValueAt(s, t) ==
    IF SetsOn(s, t) = <<>> THEN ctor[s].value
    ELSE SetsOn(s, t)[Len(SetsOn(s, t))].new

\* The handler invocations of the c-th set call, in the order they ran.
InvocationsOf(c) == SelectSeq(log, LAMBDA e : e.call = c)

HasPanicHandler(s) == \E k \in 1..Len(sigs[s].handlers) : sigs[s].handlers[k].kind = "panic"

\* A handler is running or about to run inside the set call on the stack.
InHandler == cur.active /\ cur.i <= Len(sigs[cur.sig].handlers)

----------------------------------------------------------------------------
(* C1: value() returns the argument of the most recent set on the signal,  *)
(* or the construction argument when set was never called, whatever set,   *)
(* on_change, map, value and value_copy calls came before; and a set call  *)
(* fails only when one of the signal's handlers panics.                    *)
C1_ValueIsLastSet ==
    /\ ret.op = "value" => ret.val = ValueAt(ret.sig, ops)
    /\ \A c \in 1..Len(calls) :
          calls[c].status = "panic" => HasPanicHandler(calls[c].sig)

\* value() read after two sets of different values on a signal with a handler.
C1_Witness ==
    /\ ret.op = "value"
    /\ Len(SetsOn(ret.sig, ops)) = 2
    /\ SetsOn(ret.sig, ops)[1].new # SetsOn(ret.sig, ops)[2].new
    /\ Len(sigs[ret.sig].handlers) = 1
    /\ ~HasPanicHandler(ret.sig)

(* C2: every handler registered when set(w) is called is invoked exactly   *)
(* once by that call, with new = w and old = the value held just before    *)
(* the call, which is the argument of the previous set on the signal or    *)
(* the construction value; all handlers of a call get the same pair.       *)
C2_HandlersSeeNewAndOld ==
    \A c \in 1..Len(calls) :
        LET call == calls[c]
            es == InvocationsOf(c)
        IN /\ Len(es) <= Len(call.registered)
           /\ call.status = "ok" => Len(es) = Len(call.registered)
           /\ \A k \in 1..Len(es) : /\ es[k].id = call.registered[k]
                                    /\ es[k].new = call.new
                                    /\ es[k].old = call.old
           /\ call.old = ValueAt(call.sig, call.at - 1)

\* A second set on a signal has run its handler: old is the first set's argument.
C2_Witness ==
    \E c \in 1..Len(calls) :
        /\ calls[c].status = "ok"
        /\ Len(SetsOn(calls[c].sig, calls[c].at)) = 2
        /\ Len(InvocationsOf(c)) = 1
        /\ InvocationsOf(c)[1].old = SetsOn(calls[c].sig, calls[c].at)[1].new
        /\ InvocationsOf(c)[1].old # ctor[calls[c].sig].value
        /\ InvocationsOf(c)[1].new # InvocationsOf(c)[1].old

(* C3: within one set call the handlers run in the order of their          *)
(* registration, one at a time: a handler registered earlier has finished  *)
(* before one registered later starts.                                     *)
C3_RegistrationOrder ==
    /\ \A s \in Sigs : \A i, j \in 1..Len(sigs[s].handlers) :
          i < j => sigs[s].handlers[i].id < sigs[s].handlers[j].id
    /\ \A c \in 1..Len(calls) : \A i, j \in 1..Len(InvocationsOf(c)) :
          i < j => InvocationsOf(c)[i].id < InvocationsOf(c)[j].id
    /\ cur.active => Len(InvocationsOf(cur.call)) = cur.i - 1

\* A set call has run two handlers.
C3_Witness ==
    \E c \in 1..Len(calls) :
        /\ calls[c].status = "ok"
        /\ Len(InvocationsOf(c)) = 2

(* C4 as claimed: while a handler of set(new) runs, the signal still       *)
(* stores the old value.                                                   *)
C4_OldResidentDuringHandlers ==
    InHandler => sigs[cur.sig].value = calls[cur.call].old

(* C4, amended: set(new) stores new first and keeps the replaced value in  *)
(* a local; while each handler runs the signal already stores new, and     *)
(* old is the local.                                                       *)
C4_NewResidentDuringHandlers ==
    cur.active => /\ sigs[cur.sig].value = calls[cur.call].new
                  /\ cur.old_value = calls[cur.call].old

\* The second handler of a set that changes the value is about to run.
C4_Witness ==
    /\ InHandler
    /\ cur.i = 2
    /\ calls[cur.call].new # calls[cur.call].old

----------------------------------------------------------------------------
(* Reading the histories of map *)

LastMap == mapcalls[Len(mapcalls)]

HandlerIds(sig) == {sig.handlers[k].id : k \in 1..Len(sig.handlers)}

\* Every signal is as it was and no handler has run.
SignalsUntouched == sigs' = sigs /\ log' = log /\ shared' = shared /\ calls' = calls

(* C5: map(f) applies f once to the current value and returns a signal     *)
(* holding f(current value); when f fails the failure reaches the caller   *)
(* and no signal is made.                                                  *)
C5_MapAppliesOnce ==
    /\ fcalls = Len(mapcalls)
    /\ Len(sigs) = 1 + Cardinality({m \in 1..Len(mapcalls) : mapcalls[m].status = "ok"})
    /\ \A m \in 1..Len(mapcalls) :
          LET mc == mapcalls[m]
          IN /\ mc.status = "panic" => mc.sig = 0 /\ Unwinds(mc.f)
             /\ mc.status = "ok" =>
                   /\ mc.sig \in Sigs
                   /\ ctor[mc.sig].value = Apply(mc.f, mc.arg)
                   /\ mc.f = "to_string" /\ mc.arg = IntV(42) =>
                         ctor[mc.sig].value = StringV(<<"4", "2">>)
                   /\ mc.f = "len" /\ mc.arg = StrV(Hello) =>
                         ctor[mc.sig].value = UsizeV(5)
    /\ ret.op = "map" /\ ret.status = "ok" =>
          sigs[ret.sig].value = Apply(LastMap.f, sigs[LastMap.src].value)
    /\ ret.op = "map" /\ ret.status = "panic" => ret.sig = 0

\* map has returned a signal made from a value that a set installed.
C5_Witness ==
    /\ ret.op = "map"
    /\ ret.status = "ok"
    /\ LastMap.arg # ctor[LastMap.src].value
    /\ sigs[ret.sig].value # LastMap.arg

(* C6: a signal made by map starts without handlers and shares nothing     *)
(* with its source: no call changes both, and a set on one runs only that  *)
(* one's handlers.                                                         *)
C6_DerivedIndependent ==
    [][/\ Len(sigs') > Len(sigs) => sigs'[Len(sigs')].handlers = <<>>
       /\ \A j, k \in Sigs : j # k => sigs'[j] = sigs[j] \/ sigs'[k] = sigs[k]
       /\ Len(log') > Len(log) =>
             LET e == log'[Len(log')]
             IN \A k \in Sigs : e.id \in HandlerIds(sigs[k]) <=> k = calls[e.call].sig
      ]_vars

\* A set on the source has returned while the derived signal has a handler.
C6_Witness ==
    /\ Len(sigs) = 2
    /\ Len(sigs[2].handlers) = 1
    /\ sigs[2].value = ctor[2].value
    /\ \E c \in 1..Len(calls) : /\ calls[c].sig = 1
                                /\ calls[c].status = "ok"
                                /\ calls[c].at > mapcalls[1].at
                                /\ calls[c].new # calls[c].old

(* C7: map leaves its source as it was: same value, same handlers, and no  *)
(* handler is run.                                                         *)
C7_MapLeavesSource ==
    [][Len(mapcalls') > Len(mapcalls) =>
          /\ \A k \in Sigs : sigs'[k] = sigs[k]
          /\ log' = log /\ shared' = shared /\ calls' = calls
      ]_vars

\* map has returned on a source that has a handler which has already run.
C7_Witness ==
    /\ ret.op = "map"
    /\ ret.status = "ok"
    /\ Len(sigs[LastMap.src].handlers) = 1
    /\ Len(log) = 1

----------------------------------------------------------------------------
(* C8: value_copy() returns the value stored at the time of the call; the  *)
(* copy the caller holds stays that value whatever is set afterwards, and  *)
(* value_copy itself changes no signal and runs no handler.                *)
C8_CopyIndependent ==
    /\ [](ret.op = "value_copy" => ret.val = sigs[ret.sig].value /\ copy.val = ret.val)
    /\ [](copy.sig # 0 => copy.val = ValueAt(copy.sig, copy.at))
    /\ [][ret'.op = "value_copy" => SignalsUntouched]_vars
    /\ [][copy' # copy => ret'.op = "value_copy"]_vars

\* The signal was set to another value after the copy was taken.
C8_Witness ==
    /\ ~cur.active
    /\ copy.sig # 0
    /\ ops > copy.at
    /\ copy.val # sigs[copy.sig].value
    /\ Len(sigs[copy.sig].handlers) > 0

Chars42 == <<"4", "2">>
CharsQuotedHello == <<"\"", "H", "e", "l", "l", "o", "\"">>
ReactiveCellOpen == <<"R", "e", "a", "c", "t", "i", "v", "e", "C", "e", "l", "l", "(">>

(* C9 as claimed: Display of a signal holding 42 is ReactiveCell(42) and   *)
(* Debug of one holding the text Hello is ReactiveCell("Hello").           *)
C9_ReactiveCellEnvelope ==
    /\ ret.op = "display" /\ sigs[ret.sig].value = IntV(42) =>
          ret.out = ReactiveCellOpen \o Chars42 \o <<")">>
    /\ ret.op = "debug" /\ sigs[ret.sig].value = StrV(Hello) =>
          ret.out = ReactiveCellOpen \o CharsQuotedHello \o <<")">>

(* C9, amended: the envelope is Signal(...): Display of a signal holding   *)
(* 42 is Signal(42), Debug of one holding the text Hello is                *)
(* Signal("Hello") with the payload quoted and escaped; rendering changes  *)
(* no signal and runs no handler.                                          *)
C9_SignalEnvelope ==
    /\ [](/\ ret.op = "display" /\ sigs[ret.sig].value = IntV(42) =>
                ret.out = <<"S", "i", "g", "n", "a", "l", "(", "4", "2", ")">>
          /\ ret.op = "display" /\ sigs[ret.sig].value = StrV(Hello) =>
                ret.out = <<"S", "i", "g", "n", "a", "l", "(", "H", "e", "l", "l", "o", ")">>
          /\ ret.op = "debug" /\ sigs[ret.sig].value = IntV(42) =>
                ret.out = <<"S", "i", "g", "n", "a", "l", "(", "4", "2", ")">>
          /\ ret.op = "debug" /\ sigs[ret.sig].value = StrV(Hello) =>
                ret.out = <<"S", "i", "g", "n", "a", "l", "(">> \o CharsQuotedHello \o <<")">>
          /\ ret.op = "debug" /\ sigs[ret.sig].value = StrV(Quoted) =>
                ret.out = <<"S", "i", "g", "n", "a", "l", "(", "\"",
                            "a", "\\", "\"", "\\", "\\", "\"", ")">>
          /\ ret.op \in {"display", "debug"} =>
                /\ Len(ret.out) >= 8
                /\ SubSeq(ret.out, 1, 7) = <<"S", "i", "g", "n", "a", "l", "(">>
                /\ ret.out[Len(ret.out)] = ")")
    /\ [][ret'.op \in {"display", "debug"} => SignalsUntouched]_vars

\* Debug has rendered Hello, which a set installed on a signal with a handler.
C9_Witness ==
    /\ ret.op = "debug"
    /\ sigs[ret.sig].value = StrV(Hello)
    /\ ctor[ret.sig].value # StrV(Hello)
    /\ Len(log) > 0

(* C10: a default-constructed signal is new(T::default()): it holds T's    *)
(* default (0 for i32, the empty text for &str) and no handler, so a set   *)
(* that is the first call on it runs no handler.                           *)
C10_DefaultIsNewOfDefault ==
    ctor[1].how = "default" =>
        /\ ctor[1].value.ty = "i32" => ctor[1].value = IntV(0)
        /\ ctor[1].value.ty = "str" => ctor[1].value = StrV(<<>>)
        /\ ops = 0 => sigs[1] = [value |-> ctor[1].value, handlers |-> <<>>]
        /\ \A c \in 1..Len(calls) :
              calls[c].at = 1 => /\ calls[c].registered = <<>>
                                 /\ InvocationsOf(c) = <<>>
                                 /\ calls[c].old = ctor[1].value

\* The first call on a default-constructed Signal<i32> was a set, and it returned.
C10_Witness ==
    /\ ctor[1].how = "default"
    /\ ctor[1].value = IntV(0)
    /\ \E c \in 1..Len(calls) : calls[c].at = 1 /\ calls[c].status = "ok"
    /\ ret.op = "value"
    /\ ret.val # IntV(0)

----------------------------------------------------------------------------
(* Reading the histories of the handlers *)

\* How often the handler numbered id was invoked by the c-th set call.
TimesInvoked(c, id) == Cardinality({i \in 1..Len(log) : log[i].call = c /\ log[i].id = id})

\* How often the handler numbered id was invoked in all.
Invocations(id) == Cardinality({i \in 1..Len(log) : log[i].id = id})

\* The handler invocations that returned.
Returned == {i \in 1..Len(log) : ~log[i].panicked}

\* The set calls issued on signal s after the caller's t-th call.
SetsAfter(s, t) == {c \in 1..Len(calls) : calls[c].sig = s /\ calls[c].at > t}

(* C11: when the k-th handler panics during set(new), the failure reaches  *)
(* the caller of set, handlers 1..k-1 have each run once with (new, old),  *)
(* the handlers after k are not run by that call, and the signal holds     *)
(* new: nothing is rolled back.                                            *)
C11_NoRollback ==
    /\ \A c \in 1..Len(calls) :
          calls[c].status = "panic" =>
             LET call == calls[c]
                 es == InvocationsOf(c)
                 k == Len(es)
             IN /\ k >= 1 /\ k <= Len(call.registered)
                /\ es[k].panicked
                /\ \A j \in 1..k : /\ es[j].id = call.registered[j]
                                   /\ es[j].new = call.new
                                   /\ es[j].old = call.old
                                   /\ j < k => ~es[j].panicked
                /\ \A j \in (k + 1)..Len(call.registered) :
                      TimesInvoked(c, call.registered[j]) = 0
                /\ ValueAt(call.sig, call.at) = call.new
    /\ ret.op = "set" /\ ret.status = "panic" =>
          /\ calls[Len(calls)].status = "panic"
          /\ sigs[ret.sig].value = calls[Len(calls)].new
    /\ \A s \in Sigs : ~cur.active => sigs[s].value = ValueAt(s, ops)

\* The first handler ran, the second panicked, and the signal holds the new value.
C11_Witness ==
    /\ ret.op = "set"
    /\ ret.status = "panic"
    /\ Len(InvocationsOf(Len(calls))) = 2
    /\ calls[Len(calls)].new # calls[Len(calls)].old
    /\ sigs[ret.sig].value = calls[Len(calls)].new

\* The handlers a signal holds, in list order, without their counters.
Registered(sig) ==
    [k \in 1..Len(sig.handlers) |-> [id |-> sig.handlers[k].id, kind |-> sig.handlers[k].kind]]

(* C12: the handler list only grows and only at its end, and only set      *)
(* changes the value: on_change appends one handler, leaves the value and  *)
(* runs no handler; set, value, value_copy, map and the renderings never   *)
(* add, remove or reorder handlers; nothing but set changes the value.     *)
C12_AppendOnlyValueBySet ==
    [][\A s \in Sigs :
          LET before == Registered(sigs[s])
              after == Registered(sigs'[s])
              registering == ret'.op = "on_change" /\ ret'.sig = s /\ ops' = ops + 1
          IN /\ registering =>
                   /\ Len(after) = Len(before) + 1
                   /\ SubSeq(after, 1, Len(before)) = before
                   /\ after[Len(after)].id = ops'
                   /\ sigs'[s].value = sigs[s].value
                   /\ log' = log /\ shared' = shared /\ calls' = calls
             /\ ~registering => after = before
             /\ sigs'[s].value # sigs[s].value =>
                   /\ ret'.op = "set"
                   /\ Len(calls') = Len(calls) + 1
                   /\ calls'[Len(calls')].sig = s
      ]_vars

\* Every kind of call was made on a signal that keeps two handlers in order.
C12_Witness ==
    /\ ops = 3
    /\ Len(sigs[1].handlers) = 2
    /\ sigs[1].handlers[1].id < sigs[1].handlers[2].id
    /\ Len(calls) = 1
    /\ calls[1].status = "ok"
    /\ ret.op \in {"display", "debug"}
    /\ copy.sig = 1

\* The kind of the handler that set call c found at position k of the list.
KindAt(c, k) ==
    LET hs == sigs[calls[c].sig].handlers
    IN hs[CHOOSE j \in 1..Len(hs) : hs[j].id = calls[c].registered[k]].kind

\* How many handlers set call c has invoked: all of them once it returned, those
\* the loop has passed while it runs, those up to the first that panics otherwise.
Notified(c) ==
    LET reg == calls[c].registered
    IN CASE calls[c].status = "ok" -> Len(reg)
         [] calls[c].status = "running" -> cur.i - 1
         [] calls[c].status = "panic" ->
              CHOOSE k \in 1..Len(reg) :
                  KindAt(c, k) = "panic" /\ \A j \in 1..(k - 1) : KindAt(c, j) # "panic"

\* The invocations of the first n set calls, call by call, each in list order.
RECURSIVE Trace(_)
Trace(n) ==
    IF n = 0 THEN <<>>
    ELSE Trace(n - 1) \o [k \in 1..Notified(n) |->
                             [call |-> n, id |-> calls[n].registered[k],
                              new |-> calls[n].new, old |-> calls[n].old]]

(* C13: notifications of distinct set calls never interleave: the trace of *)
(* handler invocations is the concatenation, call by call, of each call's  *)
(* invocations in registration order with that call's (new, old) pair, and *)
(* a call still in its loop is the last one made and blocks its caller.    *)
C13_NoInterleaving ==
    /\ [k \in 1..Len(log) |-> [call |-> log[k].call, id |-> log[k].id,
                               new |-> log[k].new, old |-> log[k].old]]
         = Trace(Len(calls))
    /\ \A c \in 1..Len(calls) :
          calls[c].status = "running" => c = Len(calls) /\ cur.active /\ cur.call = c
    /\ cur.active => /\ calls[cur.call].status = "running"
                     /\ ret.op = "set" /\ ret.status = "running"
    /\ ret.op = "set" /\ ret.status = "ok" =>
          Len(InvocationsOf(Len(calls))) = Len(calls[Len(calls)].registered)

\* Two set calls have returned, each having notified a handler.
C13_Witness ==
    /\ Len(calls) = 2
    /\ calls[1].status = "ok" /\ calls[2].status = "ok"
    /\ Len(log) = 2
    /\ log[1].call = 1 /\ log[2].call = 2
    /\ ret.op = "set" /\ ret.status = "ok"

\* The set calls that returned although the signal already held their argument.
SameValueSets == {c \in 1..Len(calls) : calls[c].status = "ok" /\ calls[c].new = calls[c].old}

(* C14: changes are not deduplicated: a set(w) on a signal that already    *)
(* holds w still invokes every registered handler exactly once, with       *)
(* new = w and old = w, and leaves the value equal to w.                   *)
C14_NoChangeDedup ==
    \A c \in SameValueSets :
       LET es == InvocationsOf(c)
           w == calls[c].new
       IN /\ calls[c].old = ValueAt(calls[c].sig, calls[c].at - 1)
          /\ Len(es) = Len(calls[c].registered)
          /\ \A k \in 1..Len(es) :
                es[k].id = calls[c].registered[k] /\ es[k].new = w /\ es[k].old = w
          /\ ValueAt(calls[c].sig, calls[c].at) = w
          /\ (c = Len(calls) /\ ret.op = "set") => sigs[calls[c].sig].value = w

\* A set with the value the signal already held has returned after invoking a handler.
C14_Witness ==
    /\ ret.op = "set" /\ ret.status = "ok"
    /\ Len(calls) \in SameValueSets
    /\ Len(calls[Len(calls)].registered) >= 1
    /\ Len(InvocationsOf(Len(calls))) = Len(calls[Len(calls)].registered)
    /\ sigs[ret.sig].value = calls[Len(calls)].new

\* The list entries of the first n signals together.
RECURSIVE Entries(_)
Entries(n) == IF n = 0 THEN 0 ELSE Entries(n - 1) + Len(sigs[n].handlers)

\* The on_change calls made so far: the caller's calls that were neither set nor map.
Registrations == ops - Len(calls) - Len(mapcalls)

\* The positions of signal s that hold a handler of the given behaviour.
EntriesOf(s, kind) == {k \in 1..Len(sigs[s].handlers) : sigs[s].handlers[k].kind = kind}

(* C15: handlers are not deduplicated: every on_change call keeps its own  *)
(* list entry even when the same behaviour is already registered, every    *)
(* set that returns invokes each entry it found once, at its position, and *)
(* the counter the handlers share has increased once per invocation, that  *)
(* is by n for a set over n registered counting handlers.                  *)
C15_NoHandlerDedup ==
    /\ Entries(Len(sigs)) = Registrations
    /\ \A c \in 1..Len(calls) :
          calls[c].status = "ok" =>
             /\ Len(InvocationsOf(c)) = Len(calls[c].registered)
             /\ \A k \in 1..Len(calls[c].registered) :
                   /\ InvocationsOf(c)[k].id = calls[c].registered[k]
                   /\ TimesInvoked(c, calls[c].registered[k]) = 1
    /\ shared = Cardinality(Returned)
    /\ (\A s \in Sigs : ~HasPanicHandler(s)) /\ ~cur.active =>
          shared = Len(Trace(Len(calls)))

\* The same behaviour is registered twice and one set has invoked both entries.
C15_Witness ==
    /\ Cardinality(EntriesOf(1, "count")) = 2
    /\ Len(calls) = 1
    /\ calls[1].status = "ok"
    /\ Len(calls[1].registered) = 2
    /\ TimesInvoked(1, sigs[1].handlers[1].id) = 1
    /\ TimesInvoked(1, sigs[1].handlers[2].id) = 1
    /\ shared = 2

\* The counting handlers registered on any signal, as (signal, position) pairs.
Counting == {p \in Sigs \X (1..Entries(Len(sigs))) :
                p[2] <= Len(sigs[p[1]].handlers) /\ sigs[p[1]].handlers[p[2]].kind = "count"}

(* C16: captured state is owned by the handler and persists: the counter a *)
(* handler took by move advances inside the handler, once per invocation,  *)
(* while the caller's variable keeps the value it had before registration; *)
(* a counter captured through shared ownership advances with every         *)
(* invocation and so, for one sharing handler, equals the number of set    *)
(* calls made since its registration.                                      *)
C16_CapturedStateOwned ==
    /\ outer = 0
    /\ \A p \in Counting :
          LET h == sigs[p[1]].handlers[p[2]]
          IN /\ h.count = Invocations(h.id)
             /\ ~cur.active /\ ~HasPanicHandler(p[1]) =>
                   h.count = Cardinality(SetsAfter(p[1], h.id))
    /\ shared = Cardinality(Returned)
    /\ \A p \in Counting :
          Counting = {p} /\ ~cur.active /\ ~HasPanicHandler(p[1]) =>
             shared = Cardinality(SetsAfter(p[1], sigs[p[1]].handlers[p[2]].id))

\* One counting handler has been through two set calls made after its registration.
C16_Witness ==
    /\ Counting = {<<1, 1>>}
    /\ ~cur.active
    /\ Cardinality(SetsAfter(1, sigs[1].handlers[1].id)) = 2
    /\ sigs[1].handlers[1].count = 2
    /\ shared = 2
    /\ outer = 0

\* The set calls on signal s made after the caller's t-th call whose loop got
\* as far as position k of the list.
Reaching(s, t, k) == {c \in SetsAfter(s, t) : k <= Notified(c)}

\* The first invocation of the handler registered by the caller's id-th call.
FirstOf(id) == log[CHOOSE i \in 1..Len(log) :
                      log[i].id = id /\ \A j \in 1..(i - 1) : log[j].id # id]

(* C17: registration is not retroactive: a handler is never invoked for a  *)
(* set call made before its on_change; it is invoked once by each later    *)
(* set call on its signal that returns (and by none twice), so that with   *)
(* handlers that return its invocations number the set calls issued after  *)
(* its registration; and its first invocation receives as old the value    *)
(* installed by the last set before that call, or the construction value.  *)
C17_NotRetroactive ==
    \A s \in Sigs : \A k \in 1..Len(sigs[s].handlers) :
       LET h == sigs[s].handlers[k]
       IN /\ \A c \in 1..Len(calls) :
                /\ calls[c].sig # s => TimesInvoked(c, h.id) = 0
                /\ calls[c].sig = s /\ calls[c].at < h.id =>
                      /\ TimesInvoked(c, h.id) = 0
                      /\ \A j \in 1..Len(calls[c].registered) : calls[c].registered[j] # h.id
                /\ calls[c].sig = s /\ calls[c].at > h.id =>
                      /\ calls[c].registered[k] = h.id
                      /\ TimesInvoked(c, h.id) <= 1
                      /\ calls[c].status = "ok" => TimesInvoked(c, h.id) = 1
          /\ Invocations(h.id) = Cardinality(Reaching(s, h.id, k))
          /\ ~cur.active /\ ~HasPanicHandler(s) =>
                Invocations(h.id) = Cardinality(SetsAfter(s, h.id))
          /\ Invocations(h.id) >= 1 =>
                /\ FirstOf(h.id).call \in Reaching(s, h.id, k)
                /\ \A c \in Reaching(s, h.id, k) : FirstOf(h.id).call <= c
                /\ FirstOf(h.id).old = ValueAt(s, calls[FirstOf(h.id).call].at - 1)

\* A handler registered between two set calls was invoked by the second only,
\* and received the first one's argument as old.
C17_Witness ==
    /\ Len(calls) = 2
    /\ calls[1].status = "ok" /\ calls[2].status = "ok"
    /\ Len(sigs[1].handlers) = 1
    /\ calls[1].at < sigs[1].handlers[1].id
    /\ sigs[1].handlers[1].id < calls[2].at
    /\ Len(log) = 1
    /\ log[1].call = 2
    /\ log[1].old = calls[1].new
    /\ calls[1].new # ctor[1].value

====
